---- MODULE Spec2Model ----
(***************************************************************************)
(* The process supervisor of mcp_server_manager.py: one command at a time  *)
(* (start, stop, list, running, stopall, clean) runs against the registry  *)
(* file running_processes.json and the operating system's process table.   *)
(* Every os.kill and every Popen/poll is one step, so that processes may   *)
(* exit, and pids may be reassigned, between any two of them.              *)
(*                                                                         *)
(* A registry entry is modelled by its "pid"; "started_at" is written by   *)
(* save_process_info and only ever printed, never read for a decision.     *)
(***************************************************************************)
EXTENDS Integers, Sequences, FiniteSets, TLC

\* ---------------------------------------------------------------- bounds
NumNames == 2
MaxPid == 2

\* server names, in sorted order
Names == 1..NumNames
\* process ids the operating system hands out
Pids == 1..MaxPid

\* a wait loop one iteration short
PollAttempts_short == 2 + 2

\* range(5) of stop_server's wait loop
PollAttempts == 5

\* the files start_server looks for under the server directory
Markers == {"package.json", "requirements.txt", "build/index.js",
            "dist/index.js", "app.py", "main.py", "server.py"}

python_entry_points == <<"app.py", "main.py", "server.py">>

VARIABLES
    processes_file,  \* running_processes.json: [st, tab], tab : name -> [pid]
    proc,            \* OS process table: pid -> "none" | "child" | "other" | "denied"
    pc,              \* position of the running command
    op,              \* the command line: [cmd, server_name, dir, layout]
    ret,             \* return value of the command: "True" | "False" | "None" | "-"
    msg,             \* last status line printed
    file_before,     \* the registry file when the command began
    cur,             \* stop_server's server_name (0: none)
    pid,             \* stop_server's pid
    polls,           \* iterations of stop_server's wait loop completed
    sent,            \* os.kill calls of the current stop_server call, in order
    stop_ret,        \* return value of the last stop_server call
    processes,       \* the table a command loaded from the file
    todo,            \* keys the command's loop has still to visit
    success_count,   \* stop_all's success_count
    stale,           \* clean_stale's stale list
    probed,          \* name -> the process os.kill(pid, 0) met for it (clean, list, running)
    out,             \* name -> label printed for it (list, running), or what
                     \* stop_server returned for it (stopall)
    process,         \* start_server's Popen handle: the child's pid (0: none)
    cmdline,         \* argv start_server handed to Popen
    opened,          \* file-system calls start_server made for its logs, in order
    run,             \* an invocation followed step by step beside others:
                     \* [pc, cmd, name, pid, snap, todo, ret, beside], snap the
                     \* file as it last read it, beside the last command that
                     \* ran beside it between that read and the write after it
    last_started,    \* the name whose start returned True as the command right
                     \* before this one, kept while that name is being stopped
                     \* or started again (0: none)
    quiet,           \* clean_stale runs begun since the process table last changed
                     \* or another command ran (capped at 2)
    db,              \* InMemoryDatabaseService: documents and versions by id
    call,            \* the last call made on the document services: its
                     \* function, its request, the document id it was about,
                     \* and what it returned or raised
    uuids            \* how many document ids uuid.uuid4() has given out

vars == <<processes_file, proc, pc, op, ret, msg, file_before, cur, pid, polls,
          sent, stop_ret, processes, todo, success_count, stale, probed, out,
          process, cmdline, opened, run, db, call, uuids, last_started, quiet>>

\* ------------------------------------------------------------- registry
EmptyTab == [n \in {} |-> [pid |-> 0]]
MissingFile == [st |-> "missing", tab |-> EmptyTab]
CorruptFile == [st |-> "corrupt", tab |-> EmptyTab]
OkFile(t) == [st |-> "ok", tab |-> t]

HasEntry(file, server_name) == file.st = "ok" /\ server_name \in DOMAIN file.tab

\* json.load of the file where the caller treats a bad file as {}
load_or_empty(file) == IF file.st = "ok" THEN file.tab ELSE EmptyTab

\* a table started anew at each call
save_process_info_fresh(file, server_name, p) ==
    OkFile([n \in {server_name} |-> [pid |-> p]])

save_process_info(file, server_name, p) ==
    LET processes0 == load_or_empty(file)
    IN OkFile([n \in DOMAIN processes0 \cup {server_name} |->
                 IF n = server_name THEN [pid |-> p] ELSE processes0[n]])

remove_process_info(file, server_name) ==
    IF file.st = "missing" THEN file
    ELSE LET processes0 == load_or_empty(file)
         IN OkFile([n \in DOMAIN processes0 \ {server_name} |-> processes0[n]])

\* ------------------------------------------------------ process table
\* errno of os.kill(p, sig) for any sig
os_kill(p) ==
    CASE proc[p] = "none" -> "ESRCH"
      [] proc[p] = "denied" -> "EPERM"
      [] OTHER -> "ok"

\* the exception os.kill raises with an errno, "none" when it returns
raised(res) ==
    CASE res = "ESRCH" -> "ProcessLookupError"
      [] res = "EPERM" -> "PermissionError"
      [] OTHER -> "none"

\* does `except handler` catch exc: both exceptions are subclasses of OSError
catches(handler, exc) == handler \in {"Exception", "OSError"} \/ handler = exc

\* a handler for the process that is gone only
probe_handler_narrow == "ProcessLookupError"

\* the handler around os.kill(pid, 0) in list_servers, list_running, clean_stale
probe_handler == "OSError"

\* os.kill(pid, 0) raises what the handler around it does not catch
probe_faults(res) == raised(res) # "none" /\ ~catches(probe_handler, raised(res))

\* the record kept of one os.kill call
Signal(sig, p) == [sig |-> sig, pid |-> p, res |-> os_kill(p), tgt |-> proc[p]]

\* ------------------------------------------------------------ launcher
NoOp == [cmd |-> "none", server_name |-> 0, dir |-> FALSE, layout |-> {}]

\* the last entry point that exists instead of the first
first_entry_point_last(layout) ==
    LET found == {i \in 1..Len(python_entry_points) : python_entry_points[i] \in layout}
    IN IF found = {} THEN 0 ELSE CHOOSE i \in found : \A j \in found : i >= j

\* first entry point of the list that exists, 0 if none
first_entry_point(layout) ==
    LET found == {i \in 1..Len(python_entry_points) : python_entry_points[i] \in layout}
    IN IF found = {} THEN 0 ELSE CHOOSE i \in found : \A j \in found : i <= j

\* dist/index.js tried before build/index.js
resolve_dist_first(layout) ==
    IF "package.json" \in layout
    THEN IF "dist/index.js" \in layout THEN <<"node", "dist/index.js">>
         ELSE IF "build/index.js" \in layout THEN <<"node", "build/index.js">>
         ELSE <<"npm", "start">>
    ELSE IF "requirements.txt" \in layout
    THEN IF first_entry_point(layout) # 0
         THEN <<"python", python_entry_points[first_entry_point(layout)]>>
         ELSE <<>>
    ELSE <<>>

\* npm start as the fallback of every directory, not only of node servers
resolve_npm_fallback(layout) ==
    IF "package.json" \in layout
    THEN IF "build/index.js" \in layout THEN <<"node", "build/index.js">>
         ELSE IF "dist/index.js" \in layout THEN <<"node", "dist/index.js">>
         ELSE <<"npm", "start">>
    ELSE IF "requirements.txt" \in layout
    THEN IF first_entry_point(layout) # 0
         THEN <<"python", python_entry_points[first_entry_point(layout)]>>
         ELSE <<>>
    ELSE <<"npm", "start">>

\* the argv start_server runs for a server directory, <<>> when it runs nothing
resolve(layout) ==
    IF "package.json" \in layout
    THEN IF "build/index.js" \in layout THEN <<"node", "build/index.js">>
         ELSE IF "dist/index.js" \in layout THEN <<"node", "dist/index.js">>
         ELSE <<"npm", "start">>
    ELSE IF "requirements.txt" \in layout
    THEN IF first_entry_point(layout) # 0
         THEN <<"python", python_entry_points[first_entry_point(layout)]>>
         ELSE <<>>
    ELSE <<>>

resolve_error(layout) ==
    IF "requirements.txt" \in layout THEN "No Python entry point found"
    ELSE "Unknown server type"

\* ------------------------------------------------- concurrent invocations
\* no command ran beside the invocation followed
NoneBeside == [cmd |-> "none", name |-> 0, ret |-> "-"]

\* an invocation that runs no command
Idle == [pc |-> "idle", cmd |-> "none", name |-> 0, pid |-> 0,
         snap |-> MissingFile, todo |-> {}, ret |-> "-", beside |-> NoneBeside]

\* ------------------------------------------------------ document store
\* InMemoryDatabaseService.__init__: no document, no version list
EmptyDb == [documents |-> <<>>, versions |-> <<>>]

NoCall == [fn |-> "none", request |-> [id |-> 0], id |-> 0, ret |-> "-"]

\* ----------------------------------------------------------------- init
Init ==
    /\ processes_file \in {MissingFile, CorruptFile, OkFile(EmptyTab)}
    /\ proc = [p \in Pids |-> "none"]
    /\ pc = "idle"
    /\ op = NoOp
    /\ ret = "-"
    /\ msg = ""
    /\ file_before = processes_file
    /\ cur = 0
    /\ pid = 0
    /\ polls = 0
    /\ sent = <<>>
    /\ stop_ret = "-"
    /\ processes = EmptyTab
    /\ todo = {}
    /\ success_count = 0
    /\ stale = {}
    /\ probed = EmptyTab
    /\ out = EmptyTab
    /\ process = 0
    /\ cmdline = <<>>
    /\ opened = <<>>
    /\ run = Idle
    /\ last_started = 0
    /\ quiet = 0
    /\ db = EmptyDb
    /\ call = NoCall
    /\ uuids = 0

\* ---------------------------------------------------------- environment
\* The process table is let to change at a pid while no command runs and, while
\* one runs, at the pids it has still to signal or poll: a change at any other
\* pid is the same change made before the command began or after it returned.
observed(p) ==
    CASE pc = "idle" /\ run.pc = "idle" -> TRUE
      [] pc = "start_settle" -> p = process
      [] pc \in {"stop_poll", "stop_kill"} -> p = pid
      [] pc \in {"stopall_loop", "clean_loop", "list_loop"} ->
            \E n \in todo \cap DOMAIN processes : processes[n].pid = p
      [] run.pc = "settle" -> p = run.pid
      [] run.pc = "probe" -> \E n \in DOMAIN run.snap.tab : run.snap.tab[n].pid = p
      [] OTHER -> FALSE

\* a process exits (on a signal it was sent, or on its own)
proc_exit(p) ==
    /\ observed(p)
    /\ proc[p] # "none"
    /\ proc' = [proc EXCEPT ![p] = "none"]
    /\ quiet' = 0
    /\ UNCHANGED <<processes_file, pc, op, ret, msg, file_before, cur, pid, polls,
                   sent, stop_ret, processes, todo, success_count, stale,
                   probed, out, process, cmdline, opened, run, db, call, uuids, last_started>>

\* the operating system gives a free pid to an unrelated process: one this user
\* may signal ("other") or one of another user ("denied"). The pid of a child
\* that start_server has not yet polled is not free.
pid_taken(p, kind) ==
    /\ observed(p)
    /\ proc[p] = "none"
    /\ ~(pc = "start_settle" /\ process = p)
    /\ proc' = [proc EXCEPT ![p] = kind]
    /\ quiet' = 0
    /\ UNCHANGED <<processes_file, pc, op, ret, msg, file_before, cur, pid, polls,
                   sent, stop_ret, processes, todo, success_count, stale,
                   probed, out, process, cmdline, opened, run, db, call, uuids, last_started>>

\* ---------------------------------------------------------------- start
\* what every command sets as it begins
begin(command) ==
    /\ pc = "idle"
    /\ op' = command
    /\ file_before' = processes_file
    /\ last_started' = IF command.cmd \in {"stop", "start"}
                          /\ command.server_name = last_started
                       THEN last_started ELSE 0

\* the logs set up before the server directory is looked for
log_setup_unchecked(dir) ==
    <<"makedirs logs", "open out.log w", "open err.log w">>

\* os.makedirs(logs_dir, exist_ok=True) and the two open(..., "w") of the log
\* files, which start_server reaches only when the server directory exists
log_setup(dir) ==
    IF dir THEN <<"makedirs logs", "open out.log w", "open err.log w">> ELSE <<>>

\* an entry the name already has is kept
start_record_keeps_prior(file, server_name, p) ==
    IF HasEntry(file, server_name) THEN file
    ELSE save_process_info(file, server_name, p)

\* the registry file once start_server has its Popen handle
start_record(file, server_name, p) == save_process_info(file, server_name, p)

start_server(server_name, dir, layout) ==
    /\ begin([cmd |-> "start", server_name |-> server_name, dir |-> dir, layout |-> layout])
    /\ quiet' = 0
    /\ UNCHANGED <<cur, pid, polls, sent, stop_ret, processes, todo, success_count,
                   stale, probed, out>>
    /\ opened' = log_setup(dir)
    /\ UNCHANGED <<run, db, call, uuids>>
    /\ IF ~dir
       THEN /\ pc' = "done" /\ ret' = "False" /\ msg' = "Server not found"
            /\ UNCHANGED <<processes_file, proc, process, cmdline>>
       ELSE IF resolve(layout) = <<>>
       THEN /\ pc' = "done" /\ ret' = "False" /\ msg' = resolve_error(layout)
            /\ UNCHANGED <<processes_file, proc, process, cmdline>>
       ELSE \/ \* Popen raises (no such program, no free pid)
               /\ pc' = "done" /\ ret' = "False" /\ msg' = "Error starting server"
               /\ cmdline' = resolve(layout)
               /\ UNCHANGED <<processes_file, proc, process>>
            \/ \E p \in Pids :
               /\ proc[p] = "none"
               /\ proc' = [proc EXCEPT ![p] = "child"]
               /\ process' = p
               /\ cmdline' = resolve(layout)
               /\ processes_file' = start_record(processes_file, server_name, p)
               /\ pc' = "start_settle" /\ ret' = "-" /\ msg' = "Starting server"

\* time.sleep(2); process.poll()
start_poll ==
    /\ pc = "start_settle"
    /\ pc' = "done"
    /\ IF proc[process] = "child"
       THEN ret' = "True" /\ msg' = "Server started"
       ELSE ret' = "False" /\ msg' = "Server failed to start"
    /\ UNCHANGED <<processes_file, proc, op, file_before, cur, pid, polls, sent,
                   stop_ret, processes, todo, success_count, stale, probed, out,
                   process, cmdline, opened, run, db, call, uuids, quiet>>
    /\ UNCHANGED last_started

\* the command has returned: the tool exits
main_exit ==
    /\ pc = "done"
    /\ pc' = "idle"
    /\ last_started' = IF op.cmd = "start" /\ ret = "True" THEN op.server_name ELSE 0
    /\ op' = NoOp /\ ret' = "-" /\ msg' = "" /\ file_before' = processes_file
    /\ cur' = 0 /\ pid' = 0 /\ polls' = 0 /\ sent' = <<>> /\ stop_ret' = "-"
    /\ processes' = EmptyTab /\ todo' = {} /\ success_count' = 0 /\ stale' = {}
    /\ probed' = EmptyTab /\ out' = EmptyTab /\ process' = 0 /\ cmdline' = <<>>
    /\ opened' = <<>>
    /\ UNCHANGED <<run, db, call, uuids>>
    /\ UNCHANGED <<processes_file, proc, quiet>>

\* ----------------------------------------------------------------- stop
\* the ways stop_server returns: [rv, m, file], file the registry file it leaves
\* an empty table written where there was no file
stop_no_record_creates(file) ==
    [rv |-> "False", m |-> "No record of running processes found",
     file |-> OkFile(EmptyTab)]

stop_no_record(file) ==
    [rv |-> "False", m |-> "No record of running processes found", file |-> file]

\* the unparseable file replaced by an empty table
stop_corrupted_resets(file) ==
    [rv |-> "False", m |-> "Process records file is corrupted", file |-> OkFile(EmptyTab)]

stop_corrupted(file) ==
    [rv |-> "False", m |-> "Process records file is corrupted", file |-> file]

\* a stop of a server that is not running counted as done
stop_not_running_as_success(file, server_name) ==
    [rv |-> "True", m |-> "does not appear to be running", file |-> file]

stop_not_running(file, server_name) ==
    [rv |-> "False", m |-> "does not appear to be running", file |-> file]

stop_stopped(file, server_name) ==
    [rv |-> "True", m |-> "Server stopped", file |-> remove_process_info(file, server_name)]

\* the record kept after SIGKILL
stop_killed_keeps_record(file, server_name) ==
    [rv |-> "True", m |-> "Server forcefully stopped", file |-> file]

stop_killed(file, server_name) ==
    [rv |-> "True", m |-> "Server forcefully stopped",
     file |-> remove_process_info(file, server_name)]

\* ProcessLookupError handled by the general handler
stop_not_found_as_error(file, server_name) ==
    [rv |-> "False", m |-> "Error stopping server", file |-> file]

stop_not_found(file, server_name) ==
    [rv |-> "True", m |-> "not found, removing from records",
     file |-> remove_process_info(file, server_name)]

\* the record dropped although the stop failed
stop_error_drops_record(file, server_name) ==
    [rv |-> "False", m |-> "Error stopping server",
     file |-> remove_process_info(file, server_name)]

stop_error(file, server_name) ==
    [rv |-> "False", m |-> "Error stopping server", file |-> file]

\* a loop that a failed stop ends
stop_return_aborts(r, left) ==
    /\ processes_file' = r.file
    /\ stop_ret' = r.rv
    /\ IF op'.cmd = "stopall"
       THEN /\ success_count' = success_count + (IF r.rv = "True" THEN 1 ELSE 0)
            /\ out' = [n \in DOMAIN out \cup {cur'} |-> IF n = cur' THEN r.rv ELSE out[n]]
            /\ pc' = IF left = {} \/ r.rv = "False" THEN "done" ELSE "stopall_ret"
            /\ ret' = IF left = {} \/ r.rv = "False" THEN "None" ELSE "-"
            /\ msg' = IF left = {} \/ r.rv = "False" THEN "Successfully stopped" ELSE r.m
       ELSE /\ UNCHANGED <<success_count, out>>
            /\ pc' = "done"
            /\ ret' = r.rv
            /\ msg' = r.m

\* stop_server returns r; under stop_all the loop goes on with the keys left
stop_return(r, left) ==
    /\ processes_file' = r.file
    /\ stop_ret' = r.rv
    /\ IF op'.cmd = "stopall"
       THEN /\ success_count' = success_count + (IF r.rv = "True" THEN 1 ELSE 0)
            /\ out' = [n \in DOMAIN out \cup {cur'} |-> IF n = cur' THEN r.rv ELSE out[n]]
            /\ pc' = IF left = {} THEN "done" ELSE "stopall_ret"
            /\ ret' = IF left = {} THEN "None" ELSE "-"
            /\ msg' = IF left = {} THEN "Successfully stopped" ELSE r.m
       ELSE /\ UNCHANGED <<success_count, out>>
            /\ pc' = "done"
            /\ ret' = r.rv
            /\ msg' = r.m

\* stop_server from its first line to the end of os.kill(pid, SIGTERM)
stop_call(server_name, left) ==
    /\ cur' = server_name
    /\ polls' = 0
    /\ UNCHANGED proc
    /\ IF processes_file.st = "missing"
       THEN /\ stop_return(stop_no_record(processes_file), left)
            /\ pid' = 0 /\ sent' = <<>>
       ELSE IF processes_file.st = "corrupt"
       THEN /\ stop_return(stop_corrupted(processes_file), left)
            /\ pid' = 0 /\ sent' = <<>>
       ELSE IF server_name \notin DOMAIN processes_file.tab
       THEN /\ stop_return(stop_not_running(processes_file, server_name), left)
            /\ pid' = 0 /\ sent' = <<>>
       ELSE LET p == processes_file.tab[server_name].pid IN
            /\ pid' = p
            /\ sent' = <<Signal("SIGTERM", p)>>
            /\ CASE os_kill(p) = "ESRCH" ->
                      stop_return(stop_not_found(processes_file, server_name), left)
                 [] os_kill(p) = "EPERM" ->
                      stop_return(stop_error(processes_file, server_name), left)
                 [] OTHER ->
                      /\ pc' = "stop_poll" /\ ret' = "-" /\ stop_ret' = "-"
                      /\ msg' = "Termination signal sent"
                      /\ UNCHANGED <<processes_file, success_count, out>>

stop_server(server_name) ==
    /\ begin([cmd |-> "stop", server_name |-> server_name, dir |-> FALSE, layout |-> {}])
    /\ quiet' = 0
    /\ stop_call(server_name, {})
    /\ UNCHANGED <<processes, todo, stale, probed, process, cmdline, opened, run, db, call, uuids>>

\* a wait loop that does not count its iterations
wait_next_uncounted(k) == k

\* `for _ in range(5)` goes to its next iteration
wait_next(k) == k + 1

\* one iteration of the wait loop: os.kill(pid, 0), then time.sleep(1)
stop_poll ==
    /\ pc = "stop_poll"
    /\ UNCHANGED <<proc, op, file_before, cur, pid, processes, todo, stale, probed,
                   process, cmdline, opened, run, db, call, uuids, last_started, quiet>>
    /\ sent' = Append(sent, Signal("0", pid))
    /\ IF os_kill(pid) # "ok"
       THEN /\ stop_return(stop_stopped(processes_file, cur), todo)
            /\ UNCHANGED polls
       ELSE /\ polls' = wait_next(polls)
            /\ pc' = IF wait_next(polls) = PollAttempts THEN "stop_kill" ELSE "stop_poll"
            /\ UNCHANGED <<processes_file, ret, msg, stop_ret, success_count, out>>

\* os.kill(pid, SIGKILL) after the loop ran out
stop_kill ==
    /\ pc = "stop_kill"
    /\ UNCHANGED <<op, file_before, cur, pid, polls, processes, todo, stale, probed,
                   process, cmdline, opened, run, db, call, uuids, last_started, quiet>>
    /\ sent' = Append(sent, Signal("SIGKILL", pid))
    /\ CASE os_kill(pid) = "ESRCH" ->
              /\ stop_return(stop_not_found(processes_file, cur), todo)
              /\ UNCHANGED proc
         [] os_kill(pid) = "EPERM" ->
              /\ stop_return(stop_error(processes_file, cur), todo)
              /\ UNCHANGED proc
         [] OTHER ->
              /\ stop_return(stop_killed(processes_file, cur), todo)
              /\ proc' = [proc EXCEPT ![pid] = "none"]

\* -------------------------------------------------------------- stop_all
\* what a command that returns at once leaves behind
return_early(m) ==
    /\ pc' = "done" /\ ret' = "None" /\ msg' = m
    /\ UNCHANGED <<processes_file, proc, cur, pid, polls, sent, stop_ret, processes,
                   todo, success_count, stale, probed, out, process, cmdline, opened,
                   run, db, call, uuids>>

\* an unparseable file taken for an empty table
load_guard_tolerant(file, empty_msg) ==
    IF file.st = "missing" THEN "No running servers found"
    ELSE IF file.st = "corrupt" THEN empty_msg
    ELSE IF DOMAIN file.tab = {} THEN empty_msg
    ELSE ""

\* the message of the guard the three table commands share, "" to go on
load_guard(file, empty_msg) ==
    IF file.st = "missing" THEN "No running servers found"
    ELSE IF file.st = "corrupt" THEN "Error reading process records file"
    ELSE IF DOMAIN file.tab = {} THEN empty_msg
    ELSE ""

\* a table command goes into its loop over the keys of the table it loaded
enter_loop(label, m, table, keys) ==
    /\ pc' = label /\ ret' = "-" /\ msg' = m
    /\ processes' = table
    /\ todo' = keys
    /\ UNCHANGED <<processes_file, proc, cur, pid, polls, sent, stop_ret,
                   success_count, stale, probed, out, process, cmdline, opened,
                   run, db, call, uuids>>

stop_all ==
    /\ begin([cmd |-> "stopall", server_name |-> 0, dir |-> FALSE, layout |-> {}])
    /\ quiet' = 0
    /\ IF load_guard(processes_file, "No running servers found") # ""
       THEN return_early(load_guard(processes_file, "No running servers found"))
       ELSE enter_loop("stopall_loop", "Stopping all running MCP servers",
                       processes_file.tab, DOMAIN processes_file.tab)

\* the loop calls stop_server on the next key of list(processes.keys())
stop_all_next ==
    /\ pc = "stopall_loop"
    /\ UNCHANGED <<op, file_before, processes, stale, probed, process, cmdline, opened, run, db, call, uuids,
                   last_started, quiet>>
    /\ \E server \in todo :
         /\ todo' = todo \ {server}
         /\ stop_call(server, todo \ {server})

\* stop_server has returned to the loop, which goes to its next iteration
stop_all_continue ==
    /\ pc = "stopall_ret"
    /\ pc' = "stopall_loop"
    /\ cur' = 0 /\ pid' = 0 /\ polls' = 0 /\ sent' = <<>> /\ stop_ret' = "-"
    /\ UNCHANGED <<processes_file, proc, op, ret, msg, file_before, processes, todo,
                   success_count, stale, probed, out, process, cmdline, opened, run, db, call, uuids,
                   last_started, quiet>>

\* ----------------------------------------------------------- clean_stale
clean_stale ==
    /\ begin([cmd |-> "clean", server_name |-> 0, dir |-> FALSE, layout |-> {}])
    /\ quiet' = IF quiet < 2 THEN quiet + 1 ELSE quiet
    /\ IF load_guard(processes_file, "No processes to clean") # ""
       THEN return_early(load_guard(processes_file, "No processes to clean"))
       ELSE enter_loop("clean_loop", "Checking process records",
                       processes_file.tab, DOMAIN processes_file.tab)

\* is the entry stale, given what os.kill(pid, 0) did
is_stale(res) == res # "ok"

\* the second loop left after its first iteration
clean_remove_first_only(file, names) ==
    IF names = {} THEN file
    ELSE remove_process_info(file, CHOOSE x \in names : \A y \in names : x <= y)

RECURSIVE clean_remove(_, _)
\* the second loop: remove_process_info for each name of the stale list
clean_remove(file, names) ==
    IF names = {} THEN file
    ELSE LET n == CHOOSE x \in names : TRUE
         IN clean_remove(remove_process_info(file, n), names \ {n})

\* os.kill(pid, 0) for the next item; after the last one the stale entries go
clean_probe ==
    /\ pc = "clean_loop"
    /\ \E server \in todo :
         LET p == processes[server].pid
             stale2 == IF is_stale(os_kill(p)) THEN stale \cup {server} ELSE stale
         IN /\ todo' = todo \ {server}
            /\ probed' = [n \in DOMAIN probed \cup {server} |->
                            IF n = server THEN proc[p] ELSE probed[n]]
            /\ stale' = stale2
            /\ IF probe_faults(os_kill(p))
               THEN /\ pc' = "done" /\ ret' = "raised" /\ msg' = "Traceback"
                    /\ UNCHANGED processes_file
               ELSE IF todo \ {server} # {}
               THEN UNCHANGED <<pc, ret, msg, processes_file>>
               ELSE /\ pc' = "done" /\ ret' = "None"
                    /\ msg' = IF stale2 = {} THEN "No stale process records found"
                              ELSE "Stale entries cleaned successfully"
                    /\ processes_file' = clean_remove(processes_file, stale2)
    /\ UNCHANGED <<proc, op, file_before, cur, pid, polls, sent, stop_ret, processes,
                   success_count, out, process, cmdline, opened, run, db, call, uuids, last_started, quiet>>

\* ------------------------------------------------------- list / running
\* smallest name of a non-empty set: the loops go over sorted(...)
first_of(names) == CHOOSE n \in names : \A m \in names : n <= m

\* what list_servers prints under a server that has an entry
list_label(res) == IF res = "ok" THEN "running" ELSE "WARNING"

\* what list_running prints for an entry
running_label(res) == IF res = "ok" THEN "running" ELSE "STALE"

\* a listing that drops the entries it finds dead
list_file_cleans(file, server, res) ==
    IF res = "ok" THEN file ELSE remove_process_info(file, server)

\* the registry file after list_servers / list_running handled one server
list_file(file, server, res) == file

list_servers(servers) ==
    /\ begin([cmd |-> "list", server_name |-> 0, dir |-> FALSE, layout |-> {}])
    /\ quiet' = 0
    /\ IF servers = {}
       THEN return_early("Found 0 MCP servers")
       ELSE enter_loop("list_loop", "Found MCP servers",
                       load_or_empty(processes_file), servers)

list_running ==
    /\ begin([cmd |-> "running", server_name |-> 0, dir |-> FALSE, layout |-> {}])
    /\ quiet' = 0
    /\ IF load_guard(processes_file, "No running servers found") # ""
       THEN return_early(load_guard(processes_file, "No running servers found"))
       ELSE enter_loop("list_loop", "Running MCP servers",
                       processes_file.tab, DOMAIN processes_file.tab)

\* the body of either loop for the next server in sorted order
list_next ==
    /\ pc = "list_loop"
    /\ LET server == first_of(todo)
           known == server \in DOMAIN processes
           p == processes[server].pid
           label == IF ~known THEN "stopped"
                    ELSE IF op.cmd = "list" THEN list_label(os_kill(p))
                    ELSE running_label(os_kill(p))
       IN /\ todo' = todo \ {server}
          /\ out' = [n \in DOMAIN out \cup {server} |-> IF n = server THEN label ELSE out[n]]
          /\ probed' = IF known
                       THEN [n \in DOMAIN probed \cup {server} |->
                               IF n = server THEN proc[p] ELSE probed[n]]
                       ELSE probed
          /\ processes_file' = IF known THEN list_file(processes_file, server, os_kill(p))
                               ELSE processes_file
          /\ IF known /\ probe_faults(os_kill(p))
             THEN pc' = "done" /\ ret' = "raised"
             ELSE IF todo \ {server} = {}
             THEN pc' = "done" /\ ret' = "None"
             ELSE UNCHANGED <<pc, ret>>
    /\ UNCHANGED <<proc, op, msg, file_before, cur, pid, polls, sent, stop_ret,
                   processes, success_count, stale, process, cmdline, opened, run, db, call, uuids,
                   last_started, quiet>>

\* ----------------------------------------------------------------- spec
\* the server directories the supervisor commands are run against: one for each
\* way start_server can go (unknown type, no entry point, python, npm)
SampleLayouts == {{}, {"requirements.txt"}, {"requirements.txt", "main.py"},
                  {"package.json"}}

Environment ==
    \/ \E p \in Pids : proc_exit(p)
    \/ \E p \in Pids, kind \in {"other", "denied"} : pid_taken(p, kind)

Next ==
    \/ Environment
    \/ \E n \in Names, layout \in SampleLayouts : start_server(n, TRUE, layout)
    \/ \E n \in Names : start_server(n, FALSE, {})
    \/ start_poll
    \/ \E n \in Names : stop_server(n)
    \/ stop_poll
    \/ stop_kill
    \/ stop_all
    \/ stop_all_next
    \/ stop_all_continue
    \/ clean_stale
    \/ clean_probe
    \/ \E servers \in SUBSET Names : list_servers(servers)
    \/ list_running
    \/ list_next
    \/ main_exit

Spec == Init /\ [][Next]_vars

\* the launcher alone: the first server's directory holds any combination of
\* the marker files, the other servers' directories are the sample ones
LaunchNext ==
    \/ \E p \in Pids : proc_exit(p)
    \/ \E layout \in SUBSET Markers : start_server(1, TRUE, layout)
    \/ \E n \in Names \ {1}, layout \in SampleLayouts : start_server(n, TRUE, layout)
    \/ \E n \in Names : start_server(n, FALSE, {})
    \/ start_poll
    \/ main_exit

SpecLaunch == Init /\ [][LaunchNext]_vars

\* ------------------------------------------------- concurrent invocations
\* Invocations of the tool side by side on the same registry file and process
\* table. One invocation is followed step by step: each read of the file and
\* each write of it is one step. The commands of the other invocations run
\* between its steps, each as a whole. The server directories exist and hold a
\* package.json. stop_server's wait loop, which does not touch the file, is one
\* step with its SIGTERM, and so is the probe loop of clean_stale. No command
\* of the one-at-a-time machine runs: its variables stay as Init left them,
\* but for file_before, which follows the file.
locals == <<pc, op, ret, msg, cur, pid, polls, sent, stop_ret,
            processes, todo, success_count, stale, probed, out, process, cmdline,
            opened, last_started, quiet, db, call, uuids>>

\* the write made as if the file were read again under a lock
save_process_info_write_locked(snap, now, server_name, p) ==
    save_process_info(now, server_name, p)

\* what save_process_info writes: the table it read with the entry set; the
\* file as it is now at the time of the write is not looked at
save_process_info_write(snap, now, server_name, p) ==
    save_process_info(snap, server_name, p)

\* what remove_process_info writes: the table it read without the entry
remove_process_info_write(snap, now, server_name) ==
    remove_process_info(snap, server_name)

\* the invocation followed begins a command
conc_begin(command, server_name) ==
    [Idle EXCEPT !.cmd = command, !.name = server_name]

\* the invocation followed returns rv
conc_return(rv) == [run EXCEPT !.pc = "done", !.ret = rv, !.snap = MissingFile,
                               !.todo = {}, !.pid = 0]

\* start_server up to the Popen
conc_start(server_name) ==
    /\ run.pc = "idle"
    /\ \E p \in Pids :
         /\ proc[p] = "none"
         /\ proc' = [proc EXCEPT ![p] = "child"]
         /\ run' = [conc_begin("start", server_name) EXCEPT !.pc = "save", !.pid = p]
    /\ UNCHANGED <<processes_file, file_before, locals>>

\* save_process_info: the file is read
conc_save_read ==
    /\ run.pc = "save"
    /\ run' = [run EXCEPT !.pc = "save_write", !.snap = processes_file,
                          !.beside = NoneBeside]
    /\ UNCHANGED <<processes_file, proc, file_before, locals>>

\* save_process_info: the file is written
conc_save_write ==
    /\ run.pc = "save_write"
    /\ processes_file' = save_process_info_write(run.snap, processes_file,
                                                 run.name, run.pid)
    /\ run' = [run EXCEPT !.pc = "settle", !.snap = MissingFile]
    /\ file_before' = processes_file'
    /\ UNCHANGED <<proc, locals>>

\* time.sleep(2); process.poll()
conc_start_poll ==
    /\ run.pc = "settle"
    /\ run' = conc_return(IF proc[run.pid] = "child" THEN "True" ELSE "False")
    /\ UNCHANGED <<processes_file, proc, file_before, locals>>

\* stop_server reads the file and looks the server up
conc_stop(server_name) ==
    /\ run.pc = "idle"
    /\ run' = IF HasEntry(processes_file, server_name)
              THEN [conc_begin("stop", server_name) EXCEPT
                       !.pc = "signal", !.pid = processes_file.tab[server_name].pid]
              ELSE [conc_begin("stop", server_name) EXCEPT
                       !.pc = "done", !.ret = "False"]
    /\ UNCHANGED <<processes_file, proc, file_before, locals>>

\* SIGTERM, the wait loop and SIGKILL: the process is gone when they are over
conc_stop_signal ==
    /\ run.pc = "signal"
    /\ proc' = [proc EXCEPT ![run.pid] = "none"]
    /\ run' = [run EXCEPT !.pc = "remove", !.todo = {run.name}, !.pid = 0]
    /\ UNCHANGED <<processes_file, file_before, locals>>

\* clean_stale reads the file
conc_clean ==
    /\ run.pc = "idle"
    /\ run' = IF load_guard(processes_file, "No processes to clean") # ""
              THEN [conc_begin("clean", 0) EXCEPT !.pc = "done", !.ret = "None"]
              ELSE [conc_begin("clean", 0) EXCEPT !.pc = "probe", !.snap = processes_file]
    /\ UNCHANGED <<processes_file, proc, file_before, locals>>

\* the first loop of clean_stale: os.kill(pid, 0) for every entry it read
conc_clean_probe ==
    /\ run.pc = "probe"
    /\ LET found == {n \in DOMAIN run.snap.tab : is_stale(os_kill(run.snap.tab[n].pid))}
       IN run' = IF found = {} THEN conc_return("None")
                 ELSE [run EXCEPT !.pc = "remove", !.todo = found, !.snap = MissingFile]
    /\ UNCHANGED <<processes_file, proc, file_before, locals>>

\* remove_process_info for the next name: the file is read
conc_remove_read ==
    /\ run.pc = "remove"
    /\ \E server \in run.todo :
         run' = IF processes_file.st # "missing"
                THEN [run EXCEPT !.pc = "remove_write", !.name = server,
                                 !.snap = processes_file, !.beside = NoneBeside]
                ELSE IF run.todo = {server}
                THEN conc_return(IF run.cmd = "stop" THEN "True" ELSE "None")
                ELSE [run EXCEPT !.todo = run.todo \ {server}]
    /\ UNCHANGED <<processes_file, proc, file_before, locals>>

\* remove_process_info: the file is written
conc_remove_write ==
    /\ run.pc = "remove_write"
    /\ processes_file' = remove_process_info_write(run.snap, processes_file, run.name)
    /\ run' = IF run.todo = {run.name}
              THEN conc_return(IF run.cmd = "stop" THEN "True" ELSE "None")
              ELSE [run EXCEPT !.pc = "remove", !.todo = run.todo \ {run.name},
                               !.snap = MissingFile]
    /\ file_before' = processes_file'
    /\ UNCHANGED <<proc, locals>>

\* the command has returned: the tool exits
conc_exit ==
    /\ run.pc = "done"
    /\ run' = Idle
    /\ UNCHANGED <<processes_file, proc, file_before, locals>>

\* A whole command is let to run beside the invocation followed while that one
\* is idle and where it stands between two of its accesses to the file or before
\* its probes: elsewhere it is the same command run before or after.
beside_now == run.pc \in {"idle", "probe", "save_write", "remove", "remove_write"}

\* what is kept of a whole command that ran beside the invocation followed,
\* between a read of the file and the write that follows it
Beside(command, server_name, rv) ==
    IF run.pc \in {"save_write", "remove_write"}
    THEN [run EXCEPT !.beside = [cmd |-> command, name |-> server_name, ret |-> rv]]
    ELSE run

\* another invocation runs start_server from its first line to its last
whole_start(server_name) ==
    /\ beside_now
    /\ \E p \in Pids :
         /\ proc[p] = "none"
         /\ proc' = [proc EXCEPT ![p] = "child"]
         /\ processes_file' = start_record(processes_file, server_name, p)
    /\ run' = Beside("start", server_name, "True")
    /\ file_before' = processes_file'
    /\ UNCHANGED locals

\* another invocation runs stop_server from its first line to its last
whole_stop(server_name) ==
    /\ beside_now
    /\ IF HasEntry(processes_file, server_name)
       THEN /\ proc' = [proc EXCEPT ![processes_file.tab[server_name].pid] = "none"]
            /\ processes_file' = remove_process_info(processes_file, server_name)
            /\ run' = Beside("stop", server_name, "True")
       ELSE /\ UNCHANGED <<proc, processes_file>>
            /\ run' = Beside("stop", server_name, "False")
    /\ file_before' = processes_file'
    /\ UNCHANGED locals

\* another invocation runs clean_stale from its first line to its last
whole_clean ==
    /\ beside_now
    /\ load_guard(processes_file, "No processes to clean") = ""
    /\ processes_file' =
          clean_remove(processes_file,
                       {n \in DOMAIN processes_file.tab :
                           is_stale(os_kill(processes_file.tab[n].pid))})
    /\ run' = Beside("clean", 0, "None")
    /\ file_before' = processes_file'
    /\ UNCHANGED <<proc, locals>>

ConcurrentNext ==
    \/ \E p \in Pids : proc_exit(p)
    \/ \E n \in Names : conc_start(n)
    \/ conc_save_read
    \/ conc_save_write
    \/ conc_start_poll
    \/ \E n \in Names : conc_stop(n)
    \/ conc_stop_signal
    \/ conc_clean
    \/ conc_clean_probe
    \/ conc_remove_read
    \/ conc_remove_write
    \/ conc_exit
    \/ \E n \in Names : whole_start(n)
    \/ \E n \in Names : whole_stop(n)
    \/ whole_clean

SpecConcurrent == Init /\ [][ConcurrentNext]_vars

\* ------------------------------------------- the registry functions alone
\* save_process_info and remove_process_info applied to every registry file
\* over Names and Pids: no file, a file that is not JSON, and every table.
Tables == UNION {[S -> [pid : Pids]] : S \in SUBSET Names}
Files == {MissingFile, CorruptFile} \cup {OkFile(t) : t \in Tables}

RegistryInit ==
    /\ processes_file \in Files
    /\ proc = [p \in Pids |-> "none"]
    /\ pc = "idle" /\ op = NoOp /\ ret = "-" /\ msg = ""
    /\ file_before = processes_file
    /\ cur = 0 /\ pid = 0 /\ polls = 0 /\ sent = <<>> /\ stop_ret = "-"
    /\ processes = EmptyTab /\ todo = {} /\ success_count = 0
    /\ stale = {} /\ probed = EmptyTab /\ out = EmptyTab
    /\ process = 0 /\ cmdline = <<>> /\ opened = <<>>
    /\ run = Idle /\ last_started = 0 /\ quiet = 0
    /\ db = EmptyDb /\ call = NoCall /\ uuids = 0

\* a call of a registry function from a caller that handles no exception:
\* the file before it, the file after it, and None as what it returns
reg_call(fn, server_name, p, after) ==
    /\ pc' = "done"
    /\ op' = [NoOp EXCEPT !.cmd = fn, !.server_name = server_name]
    /\ pid' = p
    /\ file_before' = processes_file
    /\ processes_file' = after
    /\ processes' = load_or_empty(after)
    /\ ret' = "None"
    /\ UNCHANGED <<proc, cur, polls, sent, stop_ret, todo, success_count, stale,
                   probed, out, process, cmdline, opened, run, db, call, uuids, last_started, quiet>>

reg_save(server_name, p) ==
    /\ msg' = ""
    /\ reg_call("save_process_info", server_name, p,
                save_process_info(processes_file, server_name, p))

reg_remove(server_name) ==
    /\ msg' = ""
    /\ reg_call("remove_process_info", server_name, 0,
                remove_process_info(processes_file, server_name))

\* the file as the table commands read it: their guard's message, and the table
reg_read ==
    /\ msg' = load_guard(processes_file, "No running servers found")
    /\ reg_call("json.load", 0, 0, processes_file)

\* the file is deleted, or overwritten with text that is not JSON, by something
\* other than the tool: the two cases the functions have a branch for
reg_damaged(file) ==
    /\ msg' = ""
    /\ reg_call("none", 0, 0, file)

RegistryNext ==
    \/ \E n \in Names, p \in Pids : reg_save(n, p)
    \/ \E n \in Names : reg_remove(n)
    \/ reg_read
    \/ \E f \in {MissingFile, CorruptFile} : reg_damaged(f)

SpecRegistry == RegistryInit /\ [][RegistryNext]_vars

\* ---------------------------------------------------- document services
\* DocumentService and GeneratorService over InMemoryDatabaseService. An
\* Optional field is <<>> for None and <<x>> for the value x; a list is a
\* sequence; a version string "a.b.c" is the sequence <<a, b, c>> of the
\* numbers between its dots, which is what split(".") and int() make of it.
MaxDocs == 2
MaxMinor == 2

DocIds == 1..MaxDocs
None == <<>>
Some(x) == <<x>>

\* the values the calls are made with
DocumentType == {"BRD", "Custom"}
GenerationRequest(type, template_id, tags) ==
    [type |-> type, title |-> "T1", project_id |-> "p1", template_id |-> template_id,
     created_by |-> "u1", tags |-> tags]
DocumentGenerationRequest ==
    {GenerationRequest("BRD", None, None),
     GenerationRequest("BRD", Some("standard-prd"), Some(<<"test", "brd">>)),
     GenerationRequest("BRD", Some("unknown"), Some(<<"test", "brd">>)),
     GenerationRequest("Custom", Some("standard-prd"), Some(<<>>)),
     GenerationRequest("Custom", None, Some(<<"test", "brd">>)),
     GenerationRequest("Custom", Some("unknown"), None)}
UpdateRequest(id, title, content) ==
    [id |-> id, content |-> content, title |-> title, description |-> None,
     tags |-> None, updated_by |-> "u1"]
DocumentUpdateRequest ==
    {UpdateRequest(id, Some("T2"), Some(<<"c1">>)) : id \in DocIds}
      \cup {UpdateRequest(id, None, Some(<<"c2">>)) : id \in DocIds}
      \cup {UpdateRequest(id, None, None) : id \in DocIds}

\* self.templates after initialize_default_templates, in insertion order
templates ==
    <<[name |-> "standard-brd", type |-> "BRD"],
      [name |-> "standard-prd", type |-> "PRD"]>>

\* dict operations
Put(f, k, v) == [x \in DOMAIN f \cup {k} |-> IF x = k THEN v ELSE f[x]]
Drop(f, k) == [x \in DOMAIN f \ {k} |-> f[x]]

\* InMemoryDatabaseService
db_create_document(d, document) ==
    [documents |-> Put(d.documents, document.id, document),
     versions |-> IF document.id \in DOMAIN d.versions THEN d.versions
                  ELSE Put(d.versions, document.id, <<>>)]

db_get_document(d, document_id) ==
    IF document_id \in DOMAIN d.documents THEN Some(d.documents[document_id]) ELSE None

db_update_document(d, document) ==
    [d EXCEPT !.documents = Put(d.documents, document.id, document)]

\* a delete that leaves the version list behind
db_delete_document_keeps_versions(d, document_id) ==
    IF document_id \in DOMAIN d.documents
    THEN [db |-> [d EXCEPT !.documents = Drop(d.documents, document_id)], ret |-> "True"]
    ELSE [db |-> d, ret |-> "False"]

db_delete_document(d, document_id) ==
    IF document_id \in DOMAIN d.documents
    THEN [db |-> [documents |-> Drop(d.documents, document_id),
                  versions |-> Drop(d.versions, document_id)],
          ret |-> "True"]
    ELSE [db |-> d, ret |-> "False"]

db_add_version(d, version) ==
    LET lists == IF version.document_id \in DOMAIN d.versions THEN d.versions
                 ELSE Put(d.versions, version.document_id, <<>>)
    IN [d EXCEPT !.versions =
            Put(lists, version.document_id, Append(lists[version.document_id], version))]

db_get_versions(d, document_id) ==
    IF document_id \in DOMAIN d.versions THEN d.versions[document_id] ELSE <<>>

db_get_template(template_id) ==
    IF \E i \in 1..Len(templates) : templates[i].name = template_id
    THEN Some(templates[CHOOSE i \in 1..Len(templates) : templates[i].name = template_id])
    ELSE None

db_get_templates_by_type(doc_type) ==
    SelectSeq(templates, LAMBDA t : t.type = doc_type)

\* a type without a template gets the first template there is
template_for_any(request) ==
    LET template == IF request.template_id # None
                    THEN db_get_template(request.template_id[1]) ELSE None
    IN IF template # None THEN template ELSE Some(templates[1])

\* GeneratorService.generate_document, its choice of template: None where it
\* raises ValueError
template_for(request) ==
    LET template == IF request.template_id # None
                    THEN db_get_template(request.template_id[1]) ELSE None
        of_type == db_get_templates_by_type(request.type)
    IN IF template # None THEN template
       ELSE IF of_type # <<>> THEN Some(of_type[1])
       ELSE None

\* the markdown made from a template: it names the template's type and name
generate_content_from_template(template) == <<"#", template.type, template.name>>

\* DocumentService.create_document with id as what uuid.uuid4() gave
create_document(d, id, request, content) ==
    LET document == [id |-> id, type |-> request.type, title |-> request.title,
                     description |-> "", project_id |-> request.project_id,
                     version |-> <<1, 0, 0>>, created_by |-> request.created_by,
                     updated_by |-> request.created_by,
                     tags |-> IF request.tags = None \/ request.tags[1] = <<>>
                              THEN <<>> ELSE request.tags[1],
                     content |-> content]
        version_info == [document_id |-> id, version |-> document.version,
                         changes |-> "Initial creation",
                         created_by |-> request.created_by, content |-> content]
    IN db_add_version(db_create_document(d, document), version_info)

\* the patch number counted up instead of the minor number
next_version_patch(version) == <<version[1], version[2], version[3] + 1>>

\* f"{version_parts[0]}.{minor}.0" with minor = int(version_parts[1]) + 1
next_version(version) == <<version[1], version[2] + 1, 0>>

\* DocumentService.update_document: the db it leaves and what it returns
update_document(d, request) ==
    IF db_get_document(d, request.id) = None THEN [db |-> d, ret |-> "None"]
    ELSE LET document == d.documents[request.id]
             content_changed ==
                 request.content # None /\ request.content[1] # document.content
             applied ==
                 [document EXCEPT
                    !.title = IF request.title # None THEN request.title[1] ELSE @,
                    !.description = IF request.description # None
                                    THEN request.description[1] ELSE @,
                    !.tags = IF request.tags # None THEN request.tags[1] ELSE @,
                    !.updated_by = request.updated_by,
                    !.content = IF content_changed THEN request.content[1] ELSE @,
                    !.version = IF content_changed THEN next_version(@) ELSE @]
             version_info == [document_id |-> document.id, version |-> applied.version,
                              changes |-> "Content updated",
                              created_by |-> request.updated_by,
                              content |-> applied.content]
         IN [db |-> db_update_document(
                        IF content_changed THEN db_add_version(d, version_info) ELSE d,
                        applied),
             ret |-> "Document"]

\* the variables of the process supervisor
supervisor == <<processes_file, proc, pc, op, ret, msg, file_before, cur, pid, polls,
                sent, stop_ret, processes, todo, success_count, stale, probed, out,
                process, cmdline, opened, run, last_started, quiet>>

\* GeneratorService.generate_document(request)
generate_document(request) ==
    /\ IF template_for(request) = None
       THEN /\ call' = [fn |-> "generate_document", request |-> request, id |-> 0,
                        ret |-> "ValueError"]
            /\ UNCHANGED <<db, uuids>>
       ELSE /\ uuids < MaxDocs
            /\ uuids' = uuids + 1
            /\ db' = create_document(db, uuids + 1, request,
                         generate_content_from_template(template_for(request)[1]))
            /\ call' = [fn |-> "generate_document", request |-> request,
                        id |-> uuids + 1, ret |-> "id"]
    /\ UNCHANGED supervisor

\* DocumentService.update_document(request); the minor number is let to
\* reach MaxMinor
update_document_call(request) ==
    /\ request.id \in DOMAIN db.documents
          => db.documents[request.id].version[2] < MaxMinor
    /\ db' = update_document(db, request).db
    /\ call' = [fn |-> "update_document", request |-> request, id |-> request.id,
                ret |-> update_document(db, request).ret]
    /\ UNCHANGED <<uuids, supervisor>>

\* DocumentService.delete_document(document_id)
delete_document(document_id) ==
    /\ db' = db_delete_document(db, document_id).db
    /\ call' = [fn |-> "delete_document", request |-> [id |-> document_id],
                id |-> document_id,
                ret |-> db_delete_document(db, document_id).ret]
    /\ UNCHANGED <<uuids, supervisor>>

DocsNext ==
    \/ \E request \in DocumentGenerationRequest : generate_document(request)
    \/ \E request \in DocumentUpdateRequest : update_document_call(request)
    \/ \E document_id \in DocIds : delete_document(document_id)

\* the services as the tests build them, with no registry file around
DocsInit == Init /\ processes_file = MissingFile

SpecDocs == DocsInit /\ [][DocsNext]_vars

\* ================================================================ claims
Returned(c) == pc = "done" /\ op.cmd = c

\* the entries of file other than server_name's are those of before
SameOthers(file, before, server_name) ==
    /\ file.st = "ok"
    /\ DOMAIN file.tab \ {server_name} = DOMAIN before.tab \ {server_name}
    /\ \A n \in DOMAIN file.tab \ {server_name} : file.tab[n] = before.tab[n]

\* SIGTERM or SIGKILL of the current stop_server call was refused (PermissionError)
Refused == \E i \in 1..Len(sent) : sent[i].sig # "0" /\ sent[i].res = "EPERM"

\* C1: when the child start_server spawned has exited by the poll after the
\* settle delay, start_server returns False and the registry file is as it was
\* before the call.
C1_EarlyExitLeavesRegistry ==
    (Returned("start") /\ msg = "Server failed to start")
        => (ret = "False" /\ processes_file = file_before)

C3_StopWithoutEntryFails ==
    (Returned("stop") /\ (\/ file_before.st = "missing"
                          \/ /\ file_before.st = "ok"
                             /\ op.server_name \notin DOMAIN file_before.tab))
        => (ret = "False" /\ sent = <<>> /\ processes_file = file_before)

C3_Witness ==
    /\ Returned("stop") /\ file_before.st = "ok"
    /\ op.server_name \notin DOMAIN file_before.tab
    /\ DOMAIN file_before.tab # {}
    /\ ret = "False"

\* C4: when the recorded pid is no process at the time of SIGTERM, stop removes
\* the entry for the name (and no other), sends nothing more and returns True.
C4_StopOfGoneProcessSucceeds ==
    (Returned("stop") /\ sent # <<>> /\ sent[1].res = "ESRCH")
        => /\ ret = "True"
           /\ Len(sent) = 1
           /\ ~HasEntry(processes_file, op.server_name)
           /\ SameOthers(processes_file, file_before, op.server_name)

C4_Witness ==
    /\ Returned("stop") /\ sent # <<>> /\ sent[1].res = "ESRCH"
    /\ HasEntry(file_before, op.server_name)
    /\ DOMAIN processes_file.tab # {}

C7_CleanStaleIdempotent ==
    (Returned("clean") /\ quiet = 2)
        => (stale = {} /\ processes_file = file_before)

\* the second run had entries to probe
C7_Witness ==
    /\ Returned("clean") /\ quiet = 2
    /\ DOMAIN probed # {}
    /\ \E n \in DOMAIN probed : probed[n] = "other"

\* C8: after clean_stale on a well-formed registry every entry whose pid was no
\* process is gone, every entry whose pid was a live process is there as before,
\* and the names reported are the names removed.
C8_CleanRemovesExactlyStale ==
    (Returned("clean") /\ file_before.st = "ok" /\ DOMAIN file_before.tab # {})
        => /\ DOMAIN probed = DOMAIN file_before.tab
           /\ \A n \in DOMAIN probed :
                 IF probed[n] = "none"
                 THEN ~HasEntry(processes_file, n)
                 ELSE /\ HasEntry(processes_file, n)
                      /\ processes_file.tab[n] = file_before.tab[n]
           /\ stale = DOMAIN file_before.tab \ DOMAIN processes_file.tab

\* C9: list and running leave the registry file as it was and send no signal
\* (they only probe), whatever the entries are; and whenever an entry
\* disappears from the registry, the command running is stop, stopall or clean.
C9_ListsAreReadOnly ==
    /\ [](op.cmd \in {"list", "running"}
            => (processes_file = file_before /\ sent = <<>>))
    /\ [][\A n \in Names :
            (HasEntry(processes_file, n) /\ ~HasEntry(processes_file', n))
                => op'.cmd \in {"stop", "stopall", "clean"}]_vars

\* running met a stale entry and kept it
C9_Witness ==
    /\ Returned("running")
    /\ \E n \in DOMAIN out :
          out[n] = "STALE" /\ probed[n] = "none" /\ HasEntry(processes_file, n)

\* the first of app.py, main.py, server.py in a directory
FirstPython(layout) ==
    IF "app.py" \in layout THEN "app.py"
    ELSE IF "main.py" \in layout THEN "main.py"
    ELSE "server.py"

EntryPoints == {"app.py", "main.py", "server.py"}

\* C10 as stated: start on a directory holding only one of app.py, main.py,
\* server.py runs that file and the registry gains an entry for the name with a
\* positive pid.
C10_EntryPointAloneStarts ==
    (Returned("start") /\ op.dir /\ \E f \in EntryPoints : op.layout = {f})
        => /\ cmdline = <<"python", FirstPython(op.layout)>>
           /\ HasEntry(processes_file, op.server_name)
           /\ processes_file.tab[op.server_name].pid > 0

\* C10 as amended: start on a directory holding requirements.txt, no
\* package.json and at least one of app.py, main.py, server.py runs the first of
\* them with python and, once Popen has given a child, the registry holds an
\* entry for the name with the child's positive pid and its other entries as
\* before; if Popen raises the registry is unchanged. A directory holding only
\* the entry-point file is refused as an unknown server type: nothing is spawned
\* and the registry is unchanged.
C10_PythonServerStarts ==
    /\ (/\ pc \in {"start_settle", "done"} /\ op.cmd = "start" /\ op.dir
        /\ "requirements.txt" \in op.layout /\ "package.json" \notin op.layout
        /\ op.layout \cap EntryPoints # {})
          => /\ cmdline = <<"python", FirstPython(op.layout)>>
             /\ IF process # 0
                THEN /\ HasEntry(processes_file, op.server_name)
                     /\ processes_file.tab[op.server_name].pid = process
                     /\ process > 0
                     /\ SameOthers(processes_file, [file_before EXCEPT !.st = "ok"],
                                   op.server_name)
                ELSE /\ msg = "Error starting server"
                     /\ ret = "False"
                     /\ processes_file = file_before
    /\ (Returned("start") /\ op.dir /\ \E f \in EntryPoints : op.layout = {f})
          => /\ msg = "Unknown server type" /\ ret = "False"
             /\ process = 0 /\ cmdline = <<>>
             /\ processes_file = file_before

\* requirements.txt with main.py and server.py: main.py runs and is recorded
C10_Witness ==
    /\ Returned("start") /\ ret = "True"
    /\ op.layout = {"requirements.txt", "main.py", "server.py"}
    /\ cmdline = <<"python", "main.py">>
    /\ HasEntry(processes_file, op.server_name)
    /\ processes_file.tab[op.server_name].pid = process

\* a start command on a server directory that exists has made its choice
Launched == pc \in {"start_settle", "done"} /\ op.cmd = "start" /\ op.dir

\* C11 as stated: for every combination of marker files the command run is
\* node build/index.js if build/index.js exists, else node dist/index.js if
\* dist/index.js exists, else npm start if package.json exists, else python on
\* the first existing of app.py, main.py, server.py if requirements.txt exists,
\* else nothing (resolution failure).
C11_FirstRuleWins ==
    Launched =>
        cmdline = (IF "build/index.js" \in op.layout THEN <<"node", "build/index.js">>
                   ELSE IF "dist/index.js" \in op.layout THEN <<"node", "dist/index.js">>
                   ELSE IF "package.json" \in op.layout THEN <<"npm", "start">>
                   ELSE IF "requirements.txt" \in op.layout
                           /\ op.layout \cap EntryPoints # {}
                   THEN <<"python", FirstPython(op.layout)>>
                   ELSE <<>>)

\* C11 as amended: build/index.js and dist/index.js are looked at only when
\* package.json exists. With package.json: node build/index.js if it exists,
\* else node dist/index.js if it exists, else npm start (whatever python files
\* there are). Without package.json and with requirements.txt: python on the
\* first existing of app.py, main.py, server.py, a resolution failure if there
\* is none. With neither: a resolution failure, even if build/index.js or
\* dist/index.js exists.
C11_FirstRuleWinsWithinKind ==
    Launched =>
        LET has(f) == f \in op.layout IN
        /\ (has("package.json") /\ has("build/index.js"))
              => cmdline = <<"node", "build/index.js">>
        /\ (has("package.json") /\ ~has("build/index.js") /\ has("dist/index.js"))
              => cmdline = <<"node", "dist/index.js">>
        /\ (has("package.json") /\ ~has("build/index.js") /\ ~has("dist/index.js"))
              => cmdline = <<"npm", "start">>
        /\ (~has("package.json") /\ has("requirements.txt")
                /\ op.layout \cap EntryPoints # {})
              => cmdline = <<"python", FirstPython(op.layout)>>
        /\ (~has("package.json") /\ has("requirements.txt")
                /\ op.layout \cap EntryPoints = {})
              => (cmdline = <<>> /\ msg = "No Python entry point found")
        /\ (~has("package.json") /\ ~has("requirements.txt"))
              => (cmdline = <<>> /\ msg = "Unknown server type")

\* both compiled outputs under package.json: build/index.js runs
C11_Witness ==
    /\ Returned("start") /\ ret = "True"
    /\ {"package.json", "build/index.js", "dist/index.js", "requirements.txt",
        "app.py"} \subseteq op.layout
    /\ cmdline = <<"node", "build/index.js">>

\* a directory the launcher resolves no entry point for: no package.json and
\* either requirements.txt with none of app.py, main.py, server.py, or no
\* requirements.txt either
Unresolvable(layout) ==
    /\ "package.json" \notin layout
    /\ "requirements.txt" \in layout => layout \cap EntryPoints = {}

\* C12: a start on an existing directory with no resolvable entry point
\* returns False in one step with a resolution message, starts no process (no
\* Popen handle, process table unchanged) and leaves the registry file as it was.
C12_ResolutionFailureIsInert ==
    [][(op'.cmd = "start" /\ op'.dir /\ Unresolvable(op'.layout) /\ pc = "idle")
          => /\ pc' = "done" /\ ret' = "False"
             /\ msg' \in {"No Python entry point found", "Unknown server type"}
             /\ process' = 0 /\ cmdline' = <<>>
             /\ proc' = proc
             /\ processes_file' = processes_file]_vars

\* a directory with build/index.js but no manifest, while another server runs
C12_Witness ==
    /\ Returned("start") /\ op.dir
    /\ op.layout = {"build/index.js", "app.py"}
    /\ ret = "False" /\ msg = "Unknown server type"
    /\ DOMAIN processes_file.tab # {}
    /\ \E p \in Pids : proc[p] = "child"

\* C13: a start for a name whose directory does not exist returns False in one
\* step with "Server not found", starts no process (no Popen handle, process
\* table unchanged), leaves the registry file as it was and makes none of the
\* calls that create the logs directory or create or truncate a log file.
C13_MissingDirectoryIsInert ==
    [][(op'.cmd = "start" /\ ~op'.dir /\ pc = "idle")
          => /\ pc' = "done" /\ ret' = "False" /\ msg' = "Server not found"
             /\ process' = 0 /\ cmdline' = <<>>
             /\ proc' = proc
             /\ processes_file' = processes_file
             /\ opened' = <<>>]_vars

\* refused while a server started earlier is running and recorded
C13_Witness ==
    /\ Returned("start") /\ ~op.dir
    /\ ret = "False" /\ opened = <<>>
    /\ \E n \in DOMAIN processes_file.tab :
          n # op.server_name /\ proc[processes_file.tab[n].pid] = "child"

\* the pid the registry held for the name being started when the command began
FirstPid == file_before.tab[op.server_name].pid

\* the child of the start before is still running: its pid still holds a child
\* and is not the pid the new child was given
FirstChildAlive == proc[FirstPid] = "child" /\ FirstPid # process

\* C14: when start(n) returns True right after a start(n) that returned True,
\* the registry holds one entry for n, with the pid of the second child, and its
\* other entries as before; the second child is alive; and while the first child
\* is alive too, its pid differs from the second's and no entry of the registry
\* records it, so that stop, stop_all and clean_stale, which work from the
\* recorded pids, have no way to it.
C14_SecondStartOrphansFirst ==
    (Returned("start") /\ ret = "True" /\ last_started = op.server_name)
        => /\ HasEntry(processes_file, op.server_name)
           /\ processes_file.tab[op.server_name].pid = process
           /\ SameOthers(processes_file, file_before, op.server_name)
           /\ proc[process] = "child"
           /\ FirstChildAlive =>
                 \A m \in DOMAIN processes_file.tab :
                    processes_file.tab[m].pid # FirstPid

\* C15 as stated: on an unparseable registry file list_running returns
\* normally and reports "No running servers found", as it does on a missing
\* file or an empty table.
C15_CorruptListedAsEmpty ==
    (Returned("running") /\ file_before.st = "corrupt")
        => (ret = "None" /\ msg = "No running servers found")

\* C15 as amended: on an unparseable registry file list_running returns
\* normally (None), lists no entry, probes no process and leaves the file as it
\* is, but what it reports is "Error reading process records file"; "No running
\* servers found" is what it reports on a missing file and on an empty table.
C15_CorruptReportedAsError ==
    /\ (Returned("running") /\ file_before.st = "corrupt")
          => /\ ret = "None"
             /\ msg = "Error reading process records file"
             /\ out = EmptyTab /\ probed = EmptyTab /\ sent = <<>>
             /\ processes_file = file_before
    /\ (Returned("running")
          /\ (file_before.st = "missing" \/ file_before = OkFile(EmptyTab)))
          => /\ ret = "None"
             /\ msg = "No running servers found"
             /\ out = EmptyTab /\ probed = EmptyTab /\ sent = <<>>
             /\ processes_file = file_before

\* running on the unparseable file while processes exist
C15_Witness ==
    /\ Returned("running") /\ file_before.st = "corrupt"
    /\ msg = "Error reading process records file"
    /\ \E p \in Pids : proc[p] # "none"

\* C16: on an unparseable registry file stop returns False with the corruption
\* message, stop_all and clean_stale return with the read-error message; none
\* of the three sends a signal or probes a process, stop_all stops nothing,
\* clean_stale finds nothing stale and the file is left unparseable as it was.
C16_CorruptionIsSurfaced ==
    (pc = "done" /\ op.cmd \in {"stop", "stopall", "clean"}
       /\ file_before.st = "corrupt")
        => /\ processes_file = file_before
           /\ sent = <<>> /\ probed = EmptyTab
           /\ stale = {} /\ success_count = 0 /\ out = EmptyTab
           /\ op.cmd = "stop" =>
                 (ret = "False" /\ msg = "Process records file is corrupted")
           /\ op.cmd # "stop" =>
                 (ret = "None" /\ msg = "Error reading process records file")

\* stop on the unparseable file while a process this user may signal exists
C16_Witness ==
    /\ Returned("stop") /\ file_before.st = "corrupt"
    /\ ret = "False" /\ processes_file.st = "corrupt"
    /\ \E p \in Pids : proc[p] = "other"

\* the file the invocation followed last read, as a table
SnapRead == OkFile(load_or_empty(run.snap))

\* the invocation followed writes the file in this step
Writes(at) == run.pc = at /\ run'.pc # at

\* C17: a write of the registry file puts back the table the writer read
\* earlier, with its own entry set or removed, whatever the file holds by then
\* (no lock, last writer wins). So a start of another name that ran between the
\* read and the write has its entry lost, and a stop of another name that ran
\* between them has the entry it removed back in the file.
C17_LastWriterWins ==
    [][/\ Writes("save_write") =>
            /\ HasEntry(processes_file', run.name)
            /\ processes_file'.tab[run.name].pid = run.pid
            /\ SameOthers(processes_file', SnapRead, run.name)
       /\ Writes("remove_write") =>
            /\ ~HasEntry(processes_file', run.name)
            /\ SameOthers(processes_file', SnapRead, run.name)
       /\ (Writes("save_write") \/ Writes("remove_write")) =>
            /\ (run.beside.cmd = "start" /\ run.beside.name # run.name
                   /\ ~HasEntry(run.snap, run.beside.name))
                  => (/\ HasEntry(processes_file, run.beside.name)
                      /\ ~HasEntry(processes_file', run.beside.name))
            /\ (run.beside.cmd = "stop" /\ run.beside.ret = "True"
                   /\ run.beside.name # run.name
                   /\ HasEntry(run.snap, run.beside.name))
                  => (/\ ~HasEntry(processes_file, run.beside.name)
                      /\ HasEntry(processes_file', run.beside.name))]_vars

\* two starts of different names both returned True and the registry holds the
\* entry of one of them only
C17_Witness ==
    /\ run.pc = "done" /\ run.cmd = "start" /\ run.ret = "True"
    /\ run.beside.cmd = "start" /\ run.beside.ret = "True"
    /\ run.beside.name # run.name
    /\ HasEntry(processes_file, run.name)
    /\ ~HasEntry(processes_file, run.beside.name)
    /\ Cardinality({p \in Pids : proc[p] = "child"}) = 2

\* C18: stop_all works on the table it read when it began, whatever the stops
\* do to the file. At every point of its loop the keys of that table are split
\* into those stop has returned for, the one stop is running for, and those
\* still to come, so that no key is stopped twice; success_count is the number
\* of stops that returned True; and when stop_all returns, stop has returned for
\* every key, the total it reports being the size of that table.
C18_StopAllVisitsEveryKeyOnce ==
    (op.cmd = "stopall" /\ file_before.st = "ok" /\ DOMAIN file_before.tab # {})
        => LET running == IF pc \in {"stop_poll", "stop_kill"} THEN {cur} ELSE {}
               returned == DOMAIN out
           IN /\ processes = file_before.tab
              /\ returned \cap todo = {}
              /\ running \cap (returned \cup todo) = {}
              /\ returned \cup running \cup todo = DOMAIN processes
              /\ \A n \in returned : out[n] \in {"True", "False"}
              /\ success_count = Cardinality({n \in returned : out[n] = "True"})
              /\ pc = "done" =>
                    /\ returned = DOMAIN processes
                    /\ ret = "None" /\ msg = "Successfully stopped"
                    /\ success_count <= Cardinality(DOMAIN processes)

\* both stops failed and both were made
C18_Witness ==
    /\ Returned("stopall")
    /\ DOMAIN processes = {1, 2}
    /\ out[1] = "False" /\ out[2] = "False"
    /\ success_count = 0

\* C19: every command returns normally: start and stop with True or False, the
\* others with None, each after a status line, and every stop made by stop_all
\* with True or False, whatever the registry file is (missing, unparseable,
\* well-formed) and whatever os.kill meets at a recorded pid (a live process,
\* no process, a process it may not signal); no exception leaves a command.
C19_NoUnhandledFault ==
    /\ ret \in {"-", "True", "False", "None"}
    /\ stop_ret \in {"-", "True", "False"}
    /\ \A n \in DOMAIN out :
          out[n] \in {"True", "False", "running", "stopped", "WARNING", "STALE"}
    /\ pc = "done" =>
          /\ op.cmd \in {"start", "stop"} => ret \in {"True", "False"}
          /\ op.cmd \in {"list", "running", "stopall", "clean"} => ret = "None"
          /\ msg # ""

\* clean_stale met a process it may not signal and a pid that is no process
C19_Witness ==
    /\ Returned("clean") /\ ret = "None"
    /\ \E n \in DOMAIN probed : probed[n] = "denied"
    /\ \E n \in DOMAIN probed : probed[n] = "none"

\* C20: when start returns True, Popen gave a child, that child was running
\* at the poll after the settle delay, the registry holds an entry for the name
\* with exactly the child's pid, whatever entry the name had before, and the
\* entries of the other names are as before; and when the child was no longer
\* running at the poll, start returns False.
C20_SuccessMeansRunningAndRecorded ==
    /\ (Returned("start") /\ ret = "True")
          => /\ process \in Pids
             /\ proc[process] = "child"
             /\ msg = "Server started"
             /\ HasEntry(processes_file, op.server_name)
             /\ processes_file.tab[op.server_name].pid = process
             /\ SameOthers(processes_file, OkFile(load_or_empty(file_before)),
                           op.server_name)
    /\ (Returned("start") /\ process # 0 /\ proc[process] # "child")
          => ret = "False"

\* the name had an entry with another pid, which the new one replaced
C20_Witness ==
    /\ Returned("start") /\ ret = "True"
    /\ HasEntry(file_before, op.server_name)
    /\ file_before.tab[op.server_name].pid # process
    /\ processes_file.tab[op.server_name].pid = process
    /\ proc[file_before.tab[op.server_name].pid] = "none"

\* the os.kill calls a stop_server call may still make: the polls left and
\* SIGKILL while it waits, SIGKILL alone after the wait, none once it returned
StopRank ==
    CASE pc = "stop_poll" -> (PollAttempts - polls) + 1
      [] pc = "stop_kill" -> 1
      [] OTHER -> 0

\* C21: a stop_server call makes at most 7 os.kill calls, one SIGTERM, at most
\* 5 polls and at most one SIGKILL; while it waits a poll is left to make, and
\* every step it takes brings it nearer to its return, whether or not the
\* process exits: the calls it may still make go down with each call, and it has
\* returned when none is left.
C21_StopTerminates ==
    /\ [](/\ StopRank \in 0..(PollAttempts + 1)
          /\ Len(sent) + StopRank <= PollAttempts + 2
          /\ Cardinality({i \in 1..Len(sent) : sent[i].sig = "SIGTERM"}) <= 1
          /\ Cardinality({i \in 1..Len(sent) : sent[i].sig = "0"}) <= PollAttempts
          /\ Cardinality({i \in 1..Len(sent) : sent[i].sig = "SIGKILL"}) <= 1
          /\ pc = "stop_poll" => polls < PollAttempts
          /\ (op.cmd = "stop" /\ StopRank = 0 /\ pc # "idle") => pc = "done")
    /\ [][(pc \in {"stop_poll", "stop_kill"} /\ sent' # sent)
             => StopRank' < StopRank]_vars

\* the process outlived SIGTERM and the 5 polls: the stop is at its SIGKILL
C21_Witness ==
    /\ op.cmd = "stop" /\ pc = "stop_kill"
    /\ polls = PollAttempts /\ Len(sent) = PollAttempts + 1
    /\ proc[pid] = "child"

\* C22: after save_process_info(name, pid) the file is a well-formed table that
\* maps name to pid; if the file was a well-formed table before, every other
\* entry is as it was and no other name came or went; if there was no file or
\* the file was not JSON, the table holds the entry for name and nothing else.
C22_RecordIsUpsertWithFrame ==
    Returned("save_process_info") =>
        /\ HasEntry(processes_file, op.server_name)
        /\ processes_file.tab[op.server_name].pid = pid
        /\ IF file_before.st = "ok"
           THEN SameOthers(processes_file, file_before, op.server_name)
           ELSE DOMAIN processes_file.tab = {op.server_name}

\* an entry of the name is overwritten with another pid beside another entry
C22_Witness ==
    /\ Returned("save_process_info")
    /\ HasEntry(file_before, op.server_name)
    /\ file_before.tab[op.server_name].pid # pid
    /\ DOMAIN file_before.tab \ {op.server_name} # {}
    /\ processes_file.tab[op.server_name].pid = pid

\* C23 as stated: remove_process_info(name) raises nothing; if the file has an
\* entry for name, the entry is gone and every other entry is as it was; if it
\* has none (no file, a table without the key, or a file that is not JSON) the
\* file is left as it was.
C23_RemoveAbsentLeavesFile ==
    Returned("remove_process_info") =>
        /\ ret = "None"
        /\ IF HasEntry(file_before, op.server_name)
           THEN /\ SameOthers(processes_file, file_before, op.server_name)
                /\ ~HasEntry(processes_file, op.server_name)
           ELSE processes_file = file_before

\* C26: a stop(n) that returns False (no file, a file that is not JSON, no
\* entry for n, SIGTERM or SIGKILL refused) leaves the registry file exactly as
\* it was before the call; a stop(n) after which the file differs returned True,
\* and the difference is that the entry for n is gone.
C26_FailedStopLeavesRegistry ==
    Returned("stop") =>
        /\ ret \in {"True", "False"}
        /\ ret = "False" => processes_file = file_before
        /\ processes_file # file_before =>
              /\ ret = "True"
              /\ HasEntry(file_before, op.server_name)
              /\ ~HasEntry(processes_file, op.server_name)
              /\ SameOthers(processes_file, file_before, op.server_name)

\* SIGTERM was delivered and the 5 polls found a process, SIGKILL was refused:
\* stop returned False and the entry is where it was
C26_Witness ==
    /\ Returned("stop") /\ ret = "False"
    /\ Len(sent) = PollAttempts + 2
    /\ sent[Len(sent)].sig = "SIGKILL" /\ sent[Len(sent)].res = "EPERM"
    /\ HasEntry(processes_file, op.server_name)
    /\ processes_file = file_before

\* C27 as stated: an entry whose pid was an existing process when list_servers,
\* list_running or clean_stale probed it, the tool's own child or a process the
\* probe is not permitted to signal, is printed as running by the two listings,
\* is not put on clean_stale's stale list and is in the file when clean_stale
\* has returned.
C27_LiveEntryNeverStale ==
    \A n \in DOMAIN probed :
        probed[n] # "none" =>
            /\ (op.cmd \in {"list", "running"} /\ n \in DOMAIN out)
                  => out[n] = "running"
            /\ op.cmd = "clean" => n \notin stale
            /\ Returned("clean") => HasEntry(processes_file, n)

\* C28 as stated: with starts running beside it, a clean_stale that deletes the
\* entry of a name it judged stale deletes the entry it probed: the entry the
\* file holds for that name when clean_stale writes is not one that records a
\* live process a start has spawned.
C28_CleanSparesFreshEntry ==
    [][(Writes("remove_write") /\ run.cmd = "clean"
            /\ HasEntry(processes_file, run.name))
         => proc[processes_file.tab[run.name].pid] # "child"]_vars

\* C29 as stated: the pid a stop sends SIGTERM or SIGKILL to is never a pid
\* that, since start recorded it, has passed to a process the tool did not
\* spawn: the process start spawned has exited and the pid was given out again.
C29_StopSignalsOnlyItsChild ==
    op.cmd \in {"stop", "stopall"} =>
        \A i \in 1..Len(sent) :
            sent[i].sig \in {"SIGTERM", "SIGKILL"} => sent[i].tgt # "other"

\* the part of db that is not about document_id is the same in d and e
SameOtherDocs(d, e, document_id) ==
    /\ DOMAIN d.documents \ {document_id} = DOMAIN e.documents \ {document_id}
    /\ DOMAIN d.versions \ {document_id} = DOMAIN e.versions \ {document_id}
    /\ \A x \in DOMAIN d.documents \ {document_id} : d.documents[x] = e.documents[x]
    /\ \A x \in DOMAIN d.versions \ {document_id} : d.versions[x] = e.versions[x]

\* this step is a call of fn that returned rv
Called(fn, rv) == call'.fn = fn /\ call'.ret = rv /\ <<db, call, uuids>>' # <<db, call, uuids>>

\* C24: an update_document of a stored document with a content that is given
\* and differs from the stored content keeps the major number, adds one to the
\* minor number, sets the patch number to 0 and appends one version record,
\* which carries the new version and content; any other update of a stored
\* document leaves version and version records alone. So a document generated
\* and then updated k times with a new content has version 1.k.0, and
\* get_document_versions returns k+1 records, the i-th with version 1.(i-1).0.
C24_UpdateBumpsMinor ==
    /\ [](\A id \in DOMAIN db.documents :
            LET records == db_get_versions(db, id)
            IN /\ db.documents[id].version = <<1, Len(records) - 1, 0>>
               /\ \A i \in 1..Len(records) : records[i].version = <<1, i - 1, 0>>)
    /\ [][(Called("update_document", "Document"))
            => LET id == call'.id
                   was == db.documents[id]
                   now == db'.documents[id]
                   given == call'.request.content
               IN /\ SameOtherDocs(db', db, id)
                  /\ IF given # None /\ given[1] # was.content
                     THEN /\ now.content = given[1]
                          /\ now.version = <<was.version[1], was.version[2] + 1, 0>>
                          /\ Len(db'.versions[id]) = Len(db.versions[id]) + 1
                          /\ SubSeq(db'.versions[id], 1, Len(db.versions[id]))
                                = db.versions[id]
                          /\ db'.versions[id][Len(db'.versions[id])].version = now.version
                          /\ db'.versions[id][Len(db'.versions[id])].content = given[1]
                     ELSE /\ now.version = was.version /\ now.content = was.content
                          /\ db'.versions[id] = db.versions[id]]_vars

\* a generated document was updated twice with a new content
C24_Witness ==
    /\ call.fn = "update_document" /\ call.ret = "Document"
    /\ call.id \in DOMAIN db.documents
    /\ db.documents[call.id].version = <<1, 2, 0>>
    /\ Len(db_get_versions(db, call.id)) = 3
    /\ db.documents[call.id].content = call.request.content[1]

\* the tags of a request: none where the request gives none
RequestTags(request) == IF request.tags = None THEN <<>> ELSE request.tags[1]

\* C25: generate_document(request) for a type that has a template returns the
\* id of a document that was not there before; the document has version 1.0.0
\* and the request's title, type, project_id, created_by and tags, and has one
\* version record, of version 1.0.0; no other document or version list is
\* touched. For a type without a template and a template_id that is not given
\* or names no template, it raises ValueError and leaves documents and version
\* lists as they were.
C25_GenerateCreatesOneDocument ==
    [][call'.fn = "generate_document" /\ <<db, call, uuids>>' # <<db, call, uuids>>
          => LET request == call'.request
                 id == call'.id
                 typed == \E i \in 1..Len(templates) : templates[i].type = request.type
                 named == /\ request.template_id # None
                          /\ \E i \in 1..Len(templates) :
                                templates[i].name = request.template_id[1]
             IN /\ typed =>
                     /\ call'.ret = "id"
                     /\ id \notin DOMAIN db.documents /\ id \notin DOMAIN db.versions
                     /\ DOMAIN db'.documents = DOMAIN db.documents \cup {id}
                     /\ SameOtherDocs(db', db, id)
                     /\ db_get_document(db', id) # None
                     /\ db'.documents[id].id = id
                     /\ db'.documents[id].version = <<1, 0, 0>>
                     /\ db'.documents[id].title = request.title
                     /\ db'.documents[id].type = request.type
                     /\ db'.documents[id].project_id = request.project_id
                     /\ db'.documents[id].created_by = request.created_by
                     /\ db'.documents[id].tags = RequestTags(request)
                     /\ Len(db_get_versions(db', id)) = 1
                     /\ db_get_versions(db', id)[1].version = <<1, 0, 0>>
                /\ (~typed /\ ~named) => (call'.ret = "ValueError" /\ db' = db)]_vars

\* a second document was generated, from a request with tags
C25_Witness ==
    /\ call.fn = "generate_document" /\ call.ret = "id"
    /\ Cardinality(DOMAIN db.documents) = 2
    /\ call.id \in DOMAIN db.documents
    /\ db.documents[call.id].tags = <<"test", "brd">>
    /\ db.documents[call.id].version = <<1, 0, 0>>
    /\ Len(db_get_versions(db, call.id)) = 1

\* C30: whatever calls of generate, update and delete were made, every stored
\* document has a version list that is not empty, whose last record has the
\* document's version and whose minor numbers go up strictly; a version list
\* is kept for stored documents only; and update_document or delete_document
\* of an id that is not stored returns None or False and changes nothing.
C30_DocumentsAndVersionsAgree ==
    /\ [](/\ DOMAIN db.versions = DOMAIN db.documents
          /\ \A id \in DOMAIN db.documents :
                LET records == db.versions[id]
                IN /\ records # <<>>
                   /\ records[Len(records)].version = db.documents[id].version
                   /\ \A i, j \in 1..Len(records) :
                         i < j => records[i].version[2] < records[j].version[2]
                   /\ \A i \in 1..Len(records) : records[i].document_id = id)
    /\ [][(call'.fn \in {"update_document", "delete_document"}
             /\ call'.id \notin DOMAIN db.documents
             /\ <<db, call, uuids>>' # <<db, call, uuids>>)
            => (/\ db' = db
                /\ call'.ret = IF call'.fn = "update_document" THEN "None" ELSE "False")]_vars

\* a document with a history was deleted beside one that has a history too,
\* and its id is given to update and delete again
C30_Witness ==
    /\ call.fn = "delete_document" /\ call.ret = "True"
    /\ uuids = 2 /\ Cardinality(DOMAIN db.documents) = 1
    /\ call.id \notin DOMAIN db.documents /\ call.id \notin DOMAIN db.versions
    /\ \E id \in DOMAIN db.documents : Len(db.versions[id]) >= 2
====
